---------------------------- MODULE Spec2Model ----------------------------
(***************************************************************************)
(* Model of the LegalTransUA translation pipeline                          *)
(* (translate_script.py and the two request flows of app.py).               *)
(*                                                                         *)
(* Text is a sequence of one-character strings, so that strip, splitlines  *)
(* and the numbered-line pattern are computed character by character.      *)
(* The three fixed messages of the program are one-token texts (the source *)
(* writes them in Ukrainian; the tokens are transliterations).             *)
(*                                                                         *)
(* Three specifications share the variables:                               *)
(*   SpecChunk   one call of translate_chunk_openai                        *)
(*   SpecGoogle  one call of translate_text_google, attempt by attempt     *)
(*   SpecRequest one request: extraction, the worker pool, the batch loop, *)
(*               the comparison table                                      *)
(***************************************************************************)
EXTENDS Naturals, Sequences, FiniteSets, TLC

VARIABLES
    \* ---- one call of translate_chunk_openai
    paragraph_chunk,      \* the argument
    response,             \* the outcome of openai.ChatCompletion.create
    chunk_result,         \* the returned list
    c_pc,                 \* "call" | "returned"
    \* ---- one call of translate_text_google
    text,                 \* the argument
    max_retries,          \* the argument
    attempt,              \* the loop variable
    g_pc,                 \* "try" | "sleep" | "returned" | "raised"
    events,               \* what the call did so far: backend attempts and sleeps
    g_result,             \* the returned value
    \* ---- one request
    caller,               \* "script" (process_document) | "app" (app.py)
    openai_chunk_size,
    pc,                   \* position of the request's main thread
    paragraphs,
    futures,              \* task index -> state of its future
    queue,                \* the pool's work queue (task indices, FIFO)
    google_translations,
    google_writes,        \* how often each slot of google_translations was assigned
    chunk_index,
    openai_translations,
    openai_writes,
    stray_writes,         \* assignments outside the paragraph indices
    batch_log,            \* per processed batch: the backend outcome and the result
    table                 \* the data rows of the comparison table

chunkVars == <<paragraph_chunk, response, chunk_result, c_pc>>
googleVars == <<text, max_retries, attempt, g_pc, events, g_result>>
requestVars == <<caller, openai_chunk_size, pc, paragraphs, futures, queue,
                 google_translations, google_writes, chunk_index,
                 openai_translations, openai_writes, stray_writes, batch_log,
                 table>>
vars == <<chunkVars, googleVars, requestVars>>

----------------------------------------------------------------------------
(* Bounds of the model *)

MaxLines == 3
MaxChunk == 2
MaxRetries == 4
MaxParas == 6
MaxChunkSize == 2
MaxBatches == 3

----------------------------------------------------------------------------
(* Text *)

NL == "\n"
Digits == {"0", "1", "2", "3", "4", "5", "6", "7", "8", "9"}
Whitespace == {" ", NL}

\* The three fixed messages
GOOGLE_SENTINEL == <<"Pomylka perekladu (Google)">>
OPENAI_SENTINEL == <<"Pomylka perekladu (OpenAI)">>
PARSE_SENTINEL == <<"Pomylka: ne vdalosya rozparsyty vidpovid GPT">>

\* The initial contents of the result arrays
EmptyStr == <<>>
NoneValue == <<"None">>

RECURSIVE LStrip(_)
LStrip(s) ==
    IF s # <<>> /\ Head(s) \in Whitespace THEN LStrip(Tail(s)) ELSE s

RECURSIVE RStrip(_)
RStrip(s) ==
    IF s # <<>> /\ s[Len(s)] \in Whitespace
    THEN RStrip(SubSeq(s, 1, Len(s) - 1))
    ELSE s

\* str.strip()
Strip(s) == RStrip(LStrip(s))

\* str.splitlines(): a line ends at a line break or at the end of the text; a
\* final line break starts no further line
RECURSIVE SplitLinesFrom(_, _)
SplitLinesFrom(s, cur) ==
    IF s = <<>>
    THEN IF cur = <<>> THEN <<>> ELSE <<cur>>
    ELSE IF Head(s) = NL
         THEN <<cur>> \o SplitLinesFrom(Tail(s), <<>>)
         ELSE SplitLinesFrom(Tail(s), Append(cur, Head(s)))

SplitLines(s) == SplitLinesFrom(s, <<>>)

\* number of leading digits of s
RECURSIVE LeadingDigits(_)
LeadingDigits(s) ==
    IF s # <<>> /\ Head(s) \in Digits THEN 1 + LeadingDigits(Tail(s)) ELSE 0

\* re.match(r"^(\d+)\)\s*(.*)$", line): whether it matches, and group(2)
MatchNumbered(line) ==
    LET d == LeadingDigits(line)
    IN  IF d >= 1 /\ Len(line) > d /\ line[d + 1] = ")"
        THEN [matched |-> TRUE,
              group2 |-> LStrip(SubSeq(line, d + 2, Len(line)))]
        ELSE [matched |-> FALSE, group2 |-> <<>>]

\* "\n".join(lines)
RECURSIVE JoinLines(_)
JoinLines(ls) ==
    IF ls = <<>> THEN <<>>
    ELSE IF Len(ls) = 1 THEN ls[1]
    ELSE ls[1] \o <<NL>> \o JoinLines(Tail(ls))

\* [x] * n
Repeat(x, n) == [i \in 1..n |-> x]


----------------------------------------------------------------------------
(* translate_chunk_openai *)

\* Outcomes of the batch backend call: the call (or reading the content of its
\* answer) raises, or it yields a text
Raise == [kind |-> "raise", content |-> <<>>]
Content(s) == [kind |-> "text", content |-> s]

\* chunk_result, current_translation, found_count before the loop
ParseInit ==
    [chunk_result |-> <<>>, current_translation |-> <<>>, found_count |-> 0]

\* what a numbered line does to the accumulated translation
FlushCurrent(st) ==
    IF st.current_translation # <<>>
    THEN Append(st.chunk_result, Strip(st.current_translation))
    ELSE st.chunk_result

\* one iteration of "for line in lines"
ParseLine(st, line) ==
    LET line_stripped == Strip(line)
        match == MatchNumbered(line_stripped)
    IN  IF line_stripped = <<>> THEN st
        ELSE IF match.matched
        THEN [chunk_result |-> FlushCurrent(st),
              current_translation |-> match.group2,
              found_count |-> st.found_count + 1]
        ELSE [st EXCEPT !.current_translation = @ \o <<" ">> \o line_stripped]

RECURSIVE ParseLines(_, _)
ParseLines(st, lines) ==
    IF lines = <<>> THEN st
    ELSE ParseLines(ParseLine(st, Head(lines)), Tail(lines))

\* the loop over the lines of result_text, then the flush after it
ParseResponse(result_text) ==
    FlushCurrent(ParseLines(ParseInit, SplitLines(result_text)))

\* the number of numbered lines the loop counted
FoundCount(result_text) ==
    ParseLines(ParseInit, SplitLines(result_text)).found_count

\* (mutant) a short result is not padded
PadResult_None(res, n) == res

\* (mutant) the parse message is put before the recovered translations
PadResult_Front(res, n) ==
    IF Len(res) < n THEN Repeat(PARSE_SENTINEL, n - Len(res)) \o res ELSE res

\* while len(chunk_result) < len(paragraph_chunk): append the parse message
PadResult(res, n) ==
    IF Len(res) < n THEN res \o Repeat(PARSE_SENTINEL, n - Len(res)) ELSE res

\* (mutant) the result is returned without the final slice
TruncateResult_None(res, n) == res

\* chunk_result[: len(paragraph_chunk)]
TruncateResult(res, n) ==
    IF Len(res) > n THEN SubSeq(res, 1, n) ELSE res

\* (mutant) the except branch returns the message once
FailedChunk_Once(n) == <<OPENAI_SENTINEL>>

\* the except branch
FailedChunk(n) == Repeat(OPENAI_SENTINEL, n)

translate_chunk_openai(chunk, resp) ==
    IF chunk = <<>> THEN <<>>
    ELSE IF resp.kind = "raise" THEN FailedChunk(Len(chunk))
    ELSE LET result_text == Strip(resp.content)
         IN  TruncateResult(PadResult(ParseResponse(result_text), Len(chunk)),
                            Len(chunk))

----------------------------------------------------------------------------
(* Inputs of the model *)

\* paragraph texts, as the extractor yields them: non-empty and trimmed
ParaTexts == <<<<"p", "1">>, <<"p", "2">>, <<"p", "3">>, <<"p", "4">>,
               <<"p", "5">>, <<"p", "6">>, <<"p", "7">>, <<"p", "8">>>>

\* the lines a backend answer is made of
LineShapes ==
    { <<>>,                                  \* blank
      <<" ">>,                               \* white space only
      <<"a">>,                               \* plain text
      <<" ", "b", " ", "b", " ">>,           \* text with blanks around and inside
      <<"1", ")">>,                          \* numbered, no text
      <<"1", ")", " ", "a">>,                \* numbered
      <<"2", ")", "b">>,                     \* numbered, no blank
      <<"1", "2", ")", " ", " ", "c">>,      \* several digits, several blanks
      <<" ", "2", ")", " ", "b", " ">>,      \* numbered, blanks around
      <<")", "a">>,                          \* no digit
      <<"1", " ", ")", "a">>,                \* blank before the parenthesis
      <<"1", ")", "2", ")", "c">> }          \* a number inside the text

SeqsUpTo(S, n) == UNION {[1..k -> S] : k \in 0..n}

Responses ==
    {Raise} \cup {Content(JoinLines(ls)) : ls \in SeqsUpTo(LineShapes, MaxLines)}

Batches == {SubSeq(ParaTexts, 1, n) : n \in 0..MaxChunk}

----------------------------------------------------------------------------
(* Idle values of the variables a specification does not use *)

ChunkIdle ==
    /\ paragraph_chunk = <<>>
    /\ response = Raise
    /\ chunk_result = <<>>
    /\ c_pc = "idle"

GoogleIdle ==
    /\ text = <<>>
    /\ max_retries = 0
    /\ attempt = 0
    /\ g_pc = "idle"
    /\ events = <<>>
    /\ g_result = <<>>

RequestIdle ==
    /\ caller = "none"
    /\ openai_chunk_size = 0
    /\ pc = "idle"
    /\ paragraphs = <<>>
    /\ futures = <<>>
    /\ queue = <<>>
    /\ google_translations = <<>>
    /\ google_writes = <<>>
    /\ chunk_index = 0
    /\ openai_translations = <<>>
    /\ openai_writes = <<>>
    /\ stray_writes = 0
    /\ batch_log = <<>>
    /\ table = <<>>

----------------------------------------------------------------------------
(* SpecChunk: one call of translate_chunk_openai *)

ChunkInit ==
    /\ paragraph_chunk \in Batches
    /\ response \in Responses
    /\ chunk_result = <<>>
    /\ c_pc = "call"
    /\ GoogleIdle
    /\ RequestIdle

CallChunk ==
    /\ c_pc = "call"
    /\ chunk_result' = translate_chunk_openai(paragraph_chunk, response)
    /\ c_pc' = "returned"
    /\ UNCHANGED <<paragraph_chunk, response, googleVars, requestVars>>

ChunkNext == CallChunk

SpecChunk == ChunkInit /\ [][ChunkNext]_vars


----------------------------------------------------------------------------
(* translate_text_google *)

\* what GoogleTranslator(source='en', target='uk').translate(text) may return
GoogleAnswers(t) == {<<"g", ":">> \o t}

\* Outcomes of one backend attempt
AttemptOutcomes(t) ==
    {[ok |-> FALSE, value |-> <<>>]}
        \cup {[ok |-> TRUE, value |-> v] : v \in GoogleAnswers(t)}

RECURSIVE Pow2(_)
Pow2(n) == IF n = 0 THEN 1 ELSE 2 * Pow2(n - 1)

\* time.sleep(2**attempt)
BackoffDelay(a) == Pow2(a)

\* (mutant) the exception of the backend leaves the call
ExceptPc_Propagates == "raised"

\* where "except Exception" leaves the call: in its handler, which sleeps
ExceptPc == "sleep"

CallEvent(o) == [kind |-> "call", ok |-> o.ok, value |-> o.value, secs |-> 0]
SleepEvent(secs) == [kind |-> "sleep", ok |-> FALSE, value |-> <<>>, secs |-> secs]

\* the call as a function of the outcomes of the attempts it makes:
\* "for attempt in range(max_retries)", return at the first success
RECURSIVE GoogleLoop(_, _, _)
GoogleLoop(outcomes, a, retries) ==
    IF a >= retries THEN GOOGLE_SENTINEL
    ELSE IF outcomes[a + 1].ok THEN outcomes[a + 1].value
    ELSE GoogleLoop(outcomes, a + 1, retries)

translate_text_google(outcomes, retries) == GoogleLoop(outcomes, 0, retries)

----------------------------------------------------------------------------
(* SpecGoogle: one call of translate_text_google, attempt by attempt *)

GoogleInit ==
    /\ text \in {ParaTexts[i] : i \in 1..4}
    /\ max_retries \in 0..MaxRetries
    /\ attempt = 0
    /\ g_pc = "try"
    /\ events = <<>>
    /\ g_result = <<>>
    /\ ChunkIdle
    /\ RequestIdle

\* the backend call of this attempt returns: the function returns its value
AttemptReturns ==
    /\ g_pc = "try"
    /\ attempt < max_retries
    /\ \E o \in {x \in AttemptOutcomes(text) : x.ok} :
          /\ events' = Append(events, CallEvent(o))
          /\ g_result' = o.value
    /\ g_pc' = "returned"
    /\ UNCHANGED <<text, max_retries, attempt, chunkVars, requestVars>>

\* the backend call of this attempt raises: the handler logs it
AttemptRaises ==
    /\ g_pc = "try"
    /\ attempt < max_retries
    /\ \E o \in {x \in AttemptOutcomes(text) : ~x.ok} :
          events' = Append(events, CallEvent(o))
    /\ g_pc' = ExceptPc
    /\ UNCHANGED <<text, max_retries, attempt, g_result, chunkVars, requestVars>>

\* the handler's time.sleep(2**attempt), then the next iteration
Backoff ==
    /\ g_pc = "sleep"
    /\ events' = Append(events, SleepEvent(BackoffDelay(attempt)))
    /\ attempt' = attempt + 1
    /\ g_pc' = "try"
    /\ UNCHANGED <<text, max_retries, g_result, chunkVars, requestVars>>

\* the loop is over: return the fixed message
Exhausted ==
    /\ g_pc = "try"
    /\ attempt >= max_retries
    /\ g_result' = GOOGLE_SENTINEL
    /\ g_pc' = "returned"
    /\ UNCHANGED <<text, max_retries, attempt, events, chunkVars, requestVars>>

GoogleNext == AttemptReturns \/ AttemptRaises \/ Backoff \/ Exhausted

SpecGoogle == GoogleInit /\ [][GoogleNext]_vars


----------------------------------------------------------------------------
(* The request: process_document, and the two flows of app.py *)

\* ThreadPoolExecutor(max_workers=5)
MAX_WORKERS == 5
\* def translate_text_google(text, max_retries=3)
DEFAULT_MAX_RETRIES == 3
\* chunk_size = 5 in app.py
APP_CHUNK_SIZE == 5

Min(a, b) == IF a < b THEN a ELSE b

\* range(0, len(paragraphs), chunk_size), paragraphs[i : i + chunk_size]
chunk_paragraphs(ps, size) ==
    [c \in 1..((Len(ps) + size - 1) \div size) |->
        SubSeq(ps, (c - 1) * size + 1, Min((c - 1) * size + size, Len(ps)))]

\* (mutant) start_idx = chunk_index
StartIdx_Unscaled(ci, size) == ci

\* start_idx = chunk_index * openai_chunk_size (chunk_index counts from 0)
StartIdx(ci, size) == ci * size

\* (mutant) openai_translations[i] = translation: start_idx is forgotten
ScatterChunk_FromZero(arr, start, res) ==
    [k \in 1..Len(arr) |-> IF k <= Len(res) THEN res[k] ELSE arr[k]]

\* for i, translation in enumerate(chunk_result):
\*     openai_translations[start_idx + i] = translation
\* arr is indexed from 1 here: slot start + j holds element j of res
ScatterChunk(arr, start, res) ==
    [k \in 1..Len(arr) |->
        IF k > start /\ k - start <= Len(res) THEN res[k - start] ELSE arr[k]]

\* how many of these assignments fall on slot k
CountWrites(writes, start, res) ==
    [k \in 1..Len(writes) |->
        IF k > start /\ k - start <= Len(res) THEN writes[k] + 1 ELSE writes[k]]

\* assignments past the end of the array (an IndexError in the program)
StrayWrites(n, start, res) ==
    Cardinality({j \in 1..Len(res) : start + j > n})

\* (mutant) results are stored in the order in which they arrive
SlotOf_ByArrival(f) ==
    1 + Cardinality({x \in 1..Len(futures) : futures[x].state = "consumed"})

\* idx = futures[future]
SlotOf(f) == futures[f].idx

\* the placeholder the batch array is allocated with:
\* [""] * len(paragraphs) in process_document, [None] * len(paragraphs) in app.py
OpenAIPlaceholder == IF caller = "app" THEN NoneValue ELSE EmptyStr

\* (mutant) str(i) instead of str(i + 1)
create_translation_table_FromZero(ps, g, o) ==
    [i \in 1..Len(ps) |->
        [no |-> i - 1, source |-> ps[i], google |-> g[i], openai |-> o[i]]]

\* zip(paragraphs, google_trans, openai_trans), one row each, numbered from 1
create_translation_table(ps, g, o) ==
    [i \in 1..Min(Len(ps), Min(Len(g), Len(o))) |->
        [no |-> i, source |-> ps[i], google |-> g[i], openai |-> o[i]]]

\* the "with ThreadPoolExecutor" block is left: every future was yielded by
\* as_completed and the pool has shut down
PoolJoined ==
    /\ Len(futures) = Len(paragraphs)
    /\ \A f \in 1..Len(futures) : futures[f].state = "consumed"

\* "for chunk_index, chunk in enumerate(all_chunks)" is over
BatchesDone ==
    chunk_index = Len(chunk_paragraphs(paragraphs, openai_chunk_size))

\* answers of the batch backend in a request
DigitChar(i) == <<"1", "2", "3", "4", "5", "6", "7", "8", "9">>[i]
NumberedLine(i, t) == <<DigitChar(i), ")", " ", "o", ":">> \o t
NumberedAnswer(chunk, k) ==
    JoinLines([i \in 1..k |-> NumberedLine(i, chunk[Min(i, Len(chunk))])])
\* the call raises, or answers with as many numbered entries as paragraphs, with
\* one less, or with one more
RequestResponses(chunk) ==
    { Raise,
      Content(NumberedAnswer(chunk, Len(chunk))),
      Content(NumberedAnswer(chunk, Len(chunk) - 1)),
      Content(NumberedAnswer(chunk, Len(chunk) + 1)) }

ChunkSizes(c) ==
    IF c = "app" THEN {APP_CHUNK_SIZE} ELSE 1..MaxChunkSize

RequestInit ==
    /\ caller \in {"script", "app"}
    /\ openai_chunk_size \in ChunkSizes(caller)
    /\ pc = "extract"
    /\ paragraphs = <<>>
    /\ futures = <<>>
    /\ queue = <<>>
    /\ google_translations = <<>>
    /\ google_writes = <<>>
    /\ chunk_index = 0
    /\ openai_translations = <<>>
    /\ openai_writes = <<>>
    /\ stray_writes = 0
    /\ batch_log = <<>>
    /\ table = <<>>
    /\ ChunkIdle
    /\ GoogleIdle

\* the paragraph counts of the model: at most MaxParas paragraphs, cut into at
\* most MaxBatches batches
ParaCounts(size) ==
    {n \in 1..MaxParas : Len(chunk_paragraphs(SubSeq(ParaTexts, 1, n), size)) <= MaxBatches}

\* extract_text yields paragraphs; the per-unit array is allocated
Extract ==
    /\ pc = "extract"
    /\ \E n \in ParaCounts(openai_chunk_size) :
          /\ paragraphs' = SubSeq(ParaTexts, 1, n)
          /\ google_translations' = Repeat(EmptyStr, n)
          /\ google_writes' = Repeat(0, n)
    /\ pc' = "submit"
    /\ UNCHANGED <<caller, openai_chunk_size, futures, queue, chunk_index,
                   openai_translations, openai_writes, stray_writes, batch_log,
                   table, chunkVars, googleVars>>

\* extract_text yields no paragraph: the request ends without a table
ExtractEmpty ==
    /\ pc = "extract"
    /\ pc' = "empty"
    /\ UNCHANGED <<caller, openai_chunk_size, paragraphs, futures, queue,
                   google_translations, google_writes, chunk_index,
                   openai_translations, openai_writes, stray_writes, batch_log,
                   table, chunkVars, googleVars>>

\* extract_text raises: fatal for the request
ExtractFails ==
    /\ pc = "extract"
    /\ pc' = "failed"
    /\ UNCHANGED <<caller, openai_chunk_size, paragraphs, futures, queue,
                   google_translations, google_writes, chunk_index,
                   openai_translations, openai_writes, stray_writes, batch_log,
                   table, chunkVars, googleVars>>

\* executor.submit(translate_text_google, p): i, for the next paragraph
SubmitTask ==
    /\ pc = "submit"
    /\ Len(futures) < Len(paragraphs)
    /\ LET i == Len(futures) + 1
       IN  /\ futures' = Append(futures, [idx |-> i, arg |-> paragraphs[i],
                                         state |-> "pending", result |-> <<>>,
                                         failed |-> FALSE])
           /\ queue' = Append(queue, i)
           /\ pc' = IF i = Len(paragraphs) THEN "collect" ELSE "submit"
    /\ UNCHANGED <<caller, openai_chunk_size, paragraphs, google_translations,
                   google_writes, chunk_index, openai_translations,
                   openai_writes, stray_writes, batch_log, table, chunkVars,
                   googleVars>>

\* an idle worker of the pool takes the oldest queued task
StartTask ==
    /\ queue # <<>>
    /\ Cardinality({f \in 1..Len(futures) : futures[f].state = "running"}) < MAX_WORKERS
    /\ futures' = [futures EXCEPT ![Head(queue)].state = "running"]
    /\ queue' = Tail(queue)
    /\ UNCHANGED <<caller, openai_chunk_size, pc, paragraphs,
                   google_translations, google_writes, chunk_index,
                   openai_translations, openai_writes, stray_writes, batch_log,
                   table, chunkVars, googleVars>>

\* the outcomes of the attempts one call with this many retries can make: failed
\* attempts up to the first successful one, or failed attempts only
AttemptRuns(t, retries) ==
    {o \in SeqsUpTo(AttemptOutcomes(t), retries) :
        /\ \A a \in 1..Len(o) : o[a].ok => a = Len(o)
        /\ Len(o) < retries => (o # <<>> /\ o[Len(o)].ok)}

\* a running task's call of translate_text_google returns
FinishTask ==
    /\ \E f \in 1..Len(futures) :
          /\ futures[f].state = "running"
          /\ \E outcomes \in AttemptRuns(futures[f].arg, DEFAULT_MAX_RETRIES) :
                futures' = [futures EXCEPT
                    ![f].state = "finished",
                    ![f].result = translate_text_google(outcomes, DEFAULT_MAX_RETRIES),
                    ![f].failed = \A a \in 1..Len(outcomes) : ~outcomes[a].ok]
    /\ UNCHANGED <<caller, openai_chunk_size, pc, paragraphs, queue,
                   google_translations, google_writes, chunk_index,
                   openai_translations, openai_writes, stray_writes, batch_log,
                   table, chunkVars, googleVars>>

\* as_completed yields a finished future: its result goes to its slot
CollectResult ==
    /\ pc = "collect"
    /\ \E f \in 1..Len(futures) :
          /\ futures[f].state = "finished"
          /\ google_translations' =
                [google_translations EXCEPT ![SlotOf(f)] = futures[f].result]
          /\ google_writes' = [google_writes EXCEPT ![SlotOf(f)] = @ + 1]
          /\ futures' = [futures EXCEPT ![f].state = "consumed"]
    /\ UNCHANGED <<caller, openai_chunk_size, pc, paragraphs, queue,
                   chunk_index, openai_translations, openai_writes,
                   stray_writes, batch_log, table, chunkVars, googleVars>>

\* the pool is joined; the batch array is allocated and the batches are cut
JoinPool ==
    /\ pc = "collect"
    /\ PoolJoined
    /\ openai_translations' = Repeat(OpenAIPlaceholder, Len(paragraphs))
    /\ openai_writes' = Repeat(0, Len(paragraphs))
    /\ chunk_index' = 0
    /\ pc' = "batches"
    /\ UNCHANGED <<caller, openai_chunk_size, paragraphs, futures, queue,
                   google_translations, google_writes, stray_writes, batch_log,
                   table, chunkVars, googleVars>>

\* one iteration of the batch loop: translate the chunk, scatter its result
ProcessChunk ==
    /\ pc = "batches"
    /\ ~BatchesDone
    /\ LET chunk == chunk_paragraphs(paragraphs, openai_chunk_size)[chunk_index + 1]
           start_idx == StartIdx(chunk_index, openai_chunk_size)
       IN  \E resp \in RequestResponses(chunk) :
              LET res == translate_chunk_openai(chunk, resp)
                  stray == StrayWrites(Len(paragraphs), start_idx, res)
              IN  /\ openai_translations' = ScatterChunk(openai_translations, start_idx, res)
                  /\ openai_writes' = CountWrites(openai_writes, start_idx, res)
                  /\ stray_writes' = stray_writes + stray
                  /\ batch_log' = Append(batch_log,
                        [chunk |-> chunk, response |-> resp, result |-> res])
                  /\ pc' = IF stray > 0 THEN "crashed" ELSE "batches"
    /\ chunk_index' = chunk_index + 1
    /\ UNCHANGED <<caller, openai_chunk_size, paragraphs, futures, queue,
                   google_translations, google_writes, table, chunkVars,
                   googleVars>>

\* after the batch loop: create_translation_table
Assemble ==
    /\ pc = "batches"
    /\ BatchesDone
    /\ table' = create_translation_table(paragraphs, google_translations,
                                         openai_translations)
    /\ pc' = "done"
    /\ UNCHANGED <<caller, openai_chunk_size, paragraphs, futures, queue,
                   google_translations, google_writes, chunk_index,
                   openai_translations, openai_writes, stray_writes, batch_log,
                   chunkVars, googleVars>>

RequestNext ==
    \/ Extract
    \/ ExtractEmpty
    \/ ExtractFails
    \/ SubmitTask
    \/ StartTask
    \/ FinishTask
    \/ CollectResult
    \/ JoinPool
    \/ ProcessChunk
    \/ Assemble

SpecRequest == RequestInit /\ [][RequestNext]_vars

----------------------------------------------------------------------------
(* Claims about translate_text_google (SpecGoogle) *)

IsCall(e) == e.kind = "call"
IsSleep(e) == e.kind = "sleep"
CallEvents == SelectSeq(events, IsCall)
SucceededAt(i) == IsCall(events[i]) /\ events[i].ok
FailedCalls == Cardinality({i \in 1..Len(events) : IsCall(events[i]) /\ ~events[i].ok})

\* C4: whatever the backend does at each attempt, translate_text_google with
\* max_retries = N never raises, calls the backend at most N times, stops at the
\* first successful attempt and returns its translation, and returns the fixed
\* Google message exactly when all N attempts have failed.
C4_RetryContract ==
    /\ g_pc \in {"idle", "try", "sleep", "returned"}
    /\ Len(CallEvents) <= max_retries
    \* nothing follows a successful attempt
    /\ \A i \in 1..Len(events) : SucceededAt(i) => i = Len(events)
    /\ (\E i \in 1..Len(events) : SucceededAt(i)) =>
          g_pc = "returned" /\ g_result = events[Len(events)].value
    /\ g_pc = "returned" =>
          /\ (g_result = GOOGLE_SENTINEL) <=> (FailedCalls = max_retries)
          /\ g_result # GOOGLE_SENTINEL => SucceededAt(Len(events))
          /\ g_result = translate_text_google(CallEvents, max_retries)

\* the call returned the fixed message after three failed attempts
C4_Witness ==
    /\ g_pc = "returned"
    /\ max_retries = 3
    /\ FailedCalls = 3
    /\ g_result = GOOGLE_SENTINEL

\* C10: backoff delays occur only between two consecutive backend attempts: the
\* delay after the k-th failed attempt is 2^(k-1) seconds and is always followed
\* by another attempt, so the fixed message is returned after the last failed
\* attempt without a further delay.
C10_BackoffOnlyBetweenAttempts ==
    /\ \A i \in 1..Len(events) :
          IsSleep(events[i]) =>
             /\ i > 1 /\ IsCall(events[i - 1]) /\ ~events[i - 1].ok
             /\ events[i].secs = Pow2(Cardinality({j \in 1..i : IsCall(events[j])}) - 1)
    /\ g_pc = "returned" =>
          \A i \in 1..Len(events) :
             IsSleep(events[i]) => i < Len(events) /\ IsCall(events[i + 1])

\* what does hold of the delays: one after every failed attempt, the last included
C10_DelayAfterEveryFailure ==
    /\ \A i \in 1..Len(events) :
          IsSleep(events[i]) =>
             /\ i > 1 /\ IsCall(events[i - 1]) /\ ~events[i - 1].ok
             /\ events[i].secs = Pow2(Cardinality({j \in 1..i : IsCall(events[j])}) - 1)
    /\ g_pc = "returned" /\ g_result = GOOGLE_SENTINEL /\ max_retries > 0 =>
          IsSleep(events[Len(events)])


----------------------------------------------------------------------------
(* Claims about translate_chunk_openai (SpecChunk) *)

\* the translations the parser recovers from the answer of this call
Recovered == ParseResponse(Strip(response.content))

\* no line of the answer is a numbered line
NoNumberedLine ==
    \A i \in 1..Len(SplitLines(response.content)) :
       ~MatchNumbered(Strip(SplitLines(response.content)[i])).matched

\* C1: for every non-empty batch and every backend outcome (exception, empty
\* text, unnumbered text, fewer or more numbered entries than paragraphs, entries
\* without text, wrapped lines) the returned list is exactly as long as the batch.
C1_LengthPreserved ==
    c_pc = "returned" /\ paragraph_chunk # <<>> =>
       Len(chunk_result) = Len(paragraph_chunk)

\* the answer held more entries than the batch has paragraphs
C1_Witness ==
    /\ c_pc = "returned"
    /\ paragraph_chunk # <<>>
    /\ response.kind = "text"
    /\ Len(Recovered) > Len(paragraph_chunk)

\* C7: for a batch of n paragraphs and any non-empty answer without any
\* numbered line (one line or several), the returned list has length n, its
\* first element is the entire raw answer and the other n-1 elements are the
\* failed-to-parse message.
C7_RawTextFallback ==
    (/\ c_pc = "returned"
     /\ paragraph_chunk # <<>>
     /\ response.kind = "text"
     /\ Strip(response.content) # <<>>
     /\ NoNumberedLine)
    => /\ Len(chunk_result) = Len(paragraph_chunk)
       /\ chunk_result[1] = Strip(response.content)
       /\ \A j \in 2..Len(chunk_result) : chunk_result[j] = PARSE_SENTINEL


----------------------------------------------------------------------------
(* Claims about a request (SpecRequest) *)

NParas == Len(paragraphs)
AllChunks == chunk_paragraphs(paragraphs, openai_chunk_size)

RECURSIVE Flatten(_)
Flatten(ss) == IF ss = <<>> THEN <<>> ELSE Head(ss) \o Flatten(Tail(ss))

\* the batch and the place in it of paragraph k (both counted from 1)
BatchOf(k) == ((k - 1) \div openai_chunk_size) + 1
PlaceOf(k) == ((k - 1) % openai_chunk_size) + 1

\* the main thread is past the "with ThreadPoolExecutor" block
AfterJoin == pc \in {"batches", "crashed", "done"}

\* C2: for every batch size B >= 1 and paragraph count N >= 0, chunk_paragraphs
\* yields contiguous batches of size B, except possibly a shorter last one, whose
\* concatenation in batch order is the paragraph sequence; with result j of
\* batch i placed at slot i*B + j, after the last batch every slot 0..N-1 has
\* been written, slot k holds the batch translator's result for paragraph k, and
\* nothing was written outside 0..N-1.
C2_ChunkPartitionAndPlacement ==
    LET chunks == AllChunks
    IN  pc # "idle" =>
       /\ openai_chunk_size >= 1
       /\ \A c \in 1..Len(chunks) :
             /\ Len(chunks[c]) >= 1
             /\ Len(chunks[c]) <= openai_chunk_size
             /\ c < Len(chunks) => Len(chunks[c]) = openai_chunk_size
             /\ \A j \in 1..Len(chunks[c]) :
                   chunks[c][j] = paragraphs[(c - 1) * openai_chunk_size + j]
       /\ Flatten(chunks) = paragraphs
       /\ stray_writes = 0
       /\ pc # "crashed"
       /\ (pc \in {"batches", "done"} /\ chunk_index = Len(chunks)) =>
             /\ Len(openai_translations) = NParas
             /\ Len(batch_log) = Len(chunks)
             /\ \A k \in 1..NParas :
                   /\ openai_writes[k] >= 1
                   /\ batch_log[BatchOf(k)].chunk[PlaceOf(k)] = paragraphs[k]
                   /\ openai_translations[k] = batch_log[BatchOf(k)].result[PlaceOf(k)]

\* all batches are done and the last of several batches was a shorter one
C2_Witness ==
    /\ pc = "done"
    /\ Len(AllChunks) >= 2
    /\ Len(AllChunks[Len(AllChunks)]) < openai_chunk_size
    /\ openai_chunk_size = 2

\* C3: whatever the interleaving and the completion order of the tasks on the
\* 5-worker pool, once the pool is joined the per-unit array is as long as the
\* paragraph sequence and slot i holds what translate_text_google returned for
\* paragraph i; no task's result is ever stored in the slot of another paragraph.
C3_ScatterByIndex ==
    /\ \A i \in 1..Len(google_translations) :
          IF google_writes[i] = 0
          THEN google_translations[i] = EmptyStr
          ELSE /\ i <= Len(futures)
               /\ futures[i].arg = paragraphs[i]
               /\ futures[i].state = "consumed"
               /\ google_translations[i] = futures[i].result
    /\ AfterJoin =>
          /\ Len(google_translations) = NParas
          /\ \A i \in 1..NParas :
                /\ futures[i].arg = paragraphs[i]
                /\ google_translations[i] = futures[i].result

\* six tasks on the five workers: the sixth task's result is in its slot while
\* the first task is still running
C3_Witness ==
    /\ NParas = MAX_WORKERS + 1
    /\ Len(futures) = NParas
    /\ futures[1].state = "running"
    /\ google_writes[NParas] = 1
    /\ google_translations[NParas] = futures[NParas].result

\* C5: when the batch backend call raises, translate_chunk_openai does not let
\* the exception out: it returns as many copies of the OpenAI failure message as
\* the batch has paragraphs, a message different from the per-unit one, and the
\* caller goes on with the next batch.
C5_BatchFailureContained ==
    /\ OPENAI_SENTINEL # GOOGLE_SENTINEL
    /\ \A b \in 1..Len(batch_log) :
          batch_log[b].response = Raise =>
             /\ batch_log[b].result = Repeat(OPENAI_SENTINEL, Len(batch_log[b].chunk))
             /\ Len(batch_log[b].result) = Len(AllChunks[b])
             /\ \A j \in 1..Len(AllChunks[b]) :
                   openai_translations[(b - 1) * openai_chunk_size + j] = OPENAI_SENTINEL
             /\ pc \in {"batches", "done"}
             /\ chunk_index >= b
    /\ pc = "done" => Len(batch_log) = Len(AllChunks)

\* the first batch failed and the second one was translated
C5_Witness ==
    /\ Len(batch_log) >= 2
    /\ batch_log[1].response = Raise
    /\ batch_log[2].response.kind = "text"
    /\ openai_translations[openai_chunk_size + 1] \notin {OPENAI_SENTINEL, PARSE_SENTINEL}

\* what the per-unit slot of a paragraph holds, as a function of that paragraph
\* and of whether the backend failed for it
PerUnitValue(t, failed) ==
    IF failed THEN GOOGLE_SENTINEL ELSE CHOOSE v \in GoogleAnswers(t) : TRUE

\* C6 (sentinel containment): two runs over the same paragraphs that differ only
\* in whether the backend fails for one paragraph, or for one batch, end with the
\* same values in the slots of every other paragraph or batch, and no sibling
\* task or later batch is cancelled or skipped.  Stated on one run: the value of
\* a slot is a function of its own paragraph (its own batch) and of the backend's
\* outcome for it alone, a slot not yet written holds its placeholder, and every
\* task and every batch has run when the request is done.
C6_SentinelContainment ==
    /\ \A i \in 1..Len(google_translations) :
          google_translations[i] =
             IF google_writes[i] = 0 THEN EmptyStr
             ELSE PerUnitValue(paragraphs[i], futures[i].failed)
    /\ \A k \in 1..Len(openai_translations) :
          BatchOf(k) > Len(batch_log) => openai_translations[k] = OpenAIPlaceholder
    /\ \A b \in 1..Len(batch_log) :
          LET chunk == AllChunks[b]
              own == translate_chunk_openai(chunk, batch_log[b].response)
          IN  \A j \in 1..Len(chunk) :
                 openai_translations[(b - 1) * openai_chunk_size + j] = own[j]
    /\ AfterJoin => \A f \in 1..NParas : futures[f].state = "consumed"
    /\ pc = "done" =>
          /\ Len(batch_log) = Len(AllChunks)
          /\ \A k \in 1..NParas : google_writes[k] >= 1 /\ openai_writes[k] >= 1

\* the backend failed for the first paragraph and for the first batch only
C6_Witness ==
    /\ pc = "done"
    /\ NParas >= 3
    /\ Len(batch_log) >= 2
    /\ futures[1].failed
    /\ \A i \in 2..NParas : ~futures[i].failed
    /\ batch_log[1].response = Raise
    /\ \A b \in 2..Len(batch_log) : batch_log[b].response.kind = "text"
    /\ google_translations[2] \in GoogleAnswers(paragraphs[2])
    /\ openai_translations[NParas] \notin {OPENAI_SENTINEL, PARSE_SENTINEL}

\* C8: the comparison table built from the paragraphs and the two result arrays
\* of a request has one data row per paragraph, in extraction order, and row i
\* (from 1) holds (i, paragraph i, per-unit result i, batch result i), whatever
\* mix of translations and failure messages the cells hold.
C8_TableRows ==
    pc = "done" =>
       /\ Len(table) = NParas
       /\ \A i \in 1..NParas :
             table[i] = [no |-> i, source |-> paragraphs[i],
                         google |-> google_translations[i],
                         openai |-> openai_translations[i]]

\* a table with a failure message of each kind and a translation in each column
C8_Witness ==
    /\ pc = "done"
    /\ \E i \in 1..Len(table) : table[i].google = GOOGLE_SENTINEL
    /\ \E i \in 1..Len(table) : table[i].google \notin {GOOGLE_SENTINEL, EmptyStr}
    /\ \E i \in 1..Len(table) : table[i].openai = OPENAI_SENTINEL
    /\ \E i \in 1..Len(table) : table[i].openai = PARSE_SENTINEL
    /\ \E i \in 1..Len(table) :
          table[i].openai \notin {OPENAI_SENTINEL, PARSE_SENTINEL, EmptyStr, NoneValue}

\* C9: the comparison table is assembled only after every per-unit task and
\* every batch call has settled, and at that moment every (paragraph, backend)
\* slot has been written exactly once, with a translation or a failure message;
\* none still holds its placeholder (the empty string or None).
C9_AssembleAfterSettled ==
    /\ table # <<>> => pc = "done"
    /\ pc = "done" =>
          /\ table # <<>>
          /\ queue = <<>>
          /\ PoolJoined
          /\ BatchesDone
          /\ Len(batch_log) = Len(AllChunks)
          /\ \A k \in 1..NParas :
                /\ google_writes[k] = 1
                /\ openai_writes[k] = 1
                /\ google_translations[k] \notin {EmptyStr, NoneValue}
                /\ openai_translations[k] \notin {EmptyStr, NoneValue}

\* the table of the app.py flow (placeholder None) after a short batch answer
C9_Witness ==
    /\ pc = "done"
    /\ caller = "app"
    /\ NParas >= 2
    /\ \E b \in 1..Len(batch_log) :
          /\ batch_log[b].response.kind = "text"
          /\ Len(ParseResponse(Strip(batch_log[b].response.content))) < Len(batch_log[b].chunk)
    /\ table[NParas].openai = PARSE_SENTINEL


----------------------------------------------------------------------------
(* Claims about the parsing of the answer (SpecChunk) *)

\* the lines of result_text the loop does not skip, and the numbered ones
IsNonBlank(l) == Strip(l) # <<>>
IsNumbered(l) == MatchNumbered(Strip(l)).matched
RestOfLine(l) == MatchNumbered(Strip(l)).group2
NonBlankLines == SelectSeq(SplitLines(Strip(response.content)), IsNonBlank)
NumberedLines == SelectSeq(NonBlankLines, IsNumbered)

\* the call returned after parsing a text
ParsedText == c_pc = "returned" /\ paragraph_chunk # <<>> /\ response.kind = "text"

\* C11: when all non-empty lines of the answer are numbered lines, each of them
\* starts a new translation: with k such lines and a batch of n >= k paragraphs,
\* slot j (1 <= j <= k) holds exactly the rest-of-line text of the j-th numbered
\* line, whatever that text is, the empty text included, and the last entry is
\* flushed at the end of the input.
C11_NumberedLineStartsEntry ==
    (/\ ParsedText
     /\ NumberedLines = NonBlankLines
     /\ Len(NumberedLines) <= Len(paragraph_chunk))
    => \A j \in 1..Len(NumberedLines) :
          chunk_result[j] = RestOfLine(NumberedLines[j])

\* the same, for answers in which every numbered line carries a text
C11_EntryWithTextStartsEntry ==
    (/\ ParsedText
     /\ NumberedLines = NonBlankLines
     /\ Len(NumberedLines) <= Len(paragraph_chunk)
     /\ \A j \in 1..Len(NumberedLines) : RestOfLine(NumberedLines[j]) # <<>>)
    => \A j \in 1..Len(NumberedLines) :
          chunk_result[j] = RestOfLine(NumberedLines[j])

\* the places of the numbered lines among the lines the loop does not skip
IsNumberedAt(p) == IsNumbered(NonBlankLines[p])
NumberedAt == SelectSeq([p \in 1..Len(NonBlankLines) |-> p], IsNumberedAt)

\* the lines after the k-th numbered line, up to the next numbered line
ContinuationsOf(k) ==
    SubSeq(NonBlankLines, NumberedAt[k] + 1,
           IF k < Len(NumberedAt) THEN NumberedAt[k + 1] - 1
           ELSE Len(NonBlankLines))

\* current_translation += " " + line_stripped, for each line of lines
RECURSIVE AppendLines(_, _)
AppendLines(cur, lines) ==
    IF lines = <<>> THEN cur
    ELSE AppendLines(cur \o <<" ">> \o Strip(Head(lines)), Tail(lines))

\* the text of the k-th numbered line with its continuation lines, as flushed
EntryText(k) ==
    Strip(AppendLines(RestOfLine(NonBlankLines[NumberedAt[k]]), ContinuationsOf(k)))

\* the translations recovered from the answer without its continuation lines,
\* and the numbered lines they come from (those that carry a text)
RecoveredNumberedOnly == ParseResponse(Strip(JoinLines(NumberedLines)))
HasTextAt(k) == RestOfLine(NumberedLines[k]) # <<>>
SlotSource == SelectSeq([k \in 1..Len(NumberedLines) |-> k], HasTextAt)

\* the answer's first non-empty line is a numbered line
StartsNumbered == NonBlankLines # <<>> /\ IsNumbered(NonBlankLines[1])

\* C12: in an answer whose first non-empty line is numbered, every later
\* non-empty line that is not numbered is appended, after a single blank, to the
\* translation started last; blank lines are ignored; and these continuation
\* lines change neither the number of recovered translations nor the slot of any
\* other entry: the list recovered has the length of the list recovered from the
\* numbered lines alone, and each slot holds the same entry with its continuation
\* lines appended.
C12_ContinuationKeepsSlots ==
    (ParsedText /\ StartsNumbered)
    => /\ Len(Recovered) = Len(RecoveredNumberedOnly)
       /\ \A j \in 1..Len(Recovered) : Recovered[j] = EntryText(SlotSource[j])

\* the same, for answers in which every numbered line carries a text
C12_ContinuationOfEntryWithText ==
    (/\ ParsedText
     /\ StartsNumbered
     /\ \A k \in 1..Len(NumberedLines) : HasTextAt(k))
    => /\ Len(Recovered) = Len(RecoveredNumberedOnly)
       /\ \A j \in 1..Len(Recovered) : Recovered[j] = EntryText(SlotSource[j])

\* C13: after parsing, for a batch of n paragraphs and k recovered translations:
\* if k < n the result is the k recovered translations followed by n - k copies of
\* the failed-to-parse message; if k > n it is exactly the first n recovered
\* translations; if k = n it is the recovered translations unchanged.
C13_PadThenTruncate ==
    ParsedText =>
       LET k == Len(Recovered)
           n == Len(paragraph_chunk)
       IN  /\ k < n => chunk_result = Recovered \o Repeat(PARSE_SENTINEL, n - k)
           /\ k > n => chunk_result = SubSeq(Recovered, 1, n)
           /\ k = n => chunk_result = Recovered

\* some translations were recovered, fewer than the batch has paragraphs
C13_Witness ==
    /\ ParsedText
    /\ Len(Recovered) >= 1
    /\ Len(Recovered) < Len(paragraph_chunk)

\* the answer holds exactly as many numbered lines as the batch has paragraphs
ExactlyNumbered == Len(NumberedLines) = Len(paragraph_chunk)

\* C14: the translations are returned in the order of the paragraphs: for every
\* answer that holds exactly n numbered lines for a batch of n paragraphs, slot j
\* holds the text of the j-th numbered entry, whatever text without a number
\* (such as an introductory line before the first numbered entry) the answer
\* holds besides.
C14_SameOrder ==
    (ParsedText /\ ExactlyNumbered)
    => \A j \in 1..Len(paragraph_chunk) : chunk_result[j] = EntryText(j)

\* the same, for answers in which every numbered line carries a text: the text
\* before the first numbered line still takes slot 1
C14_SameOrderOfEntriesWithText ==
    (/\ ParsedText
     /\ ExactlyNumbered
     /\ \A k \in 1..Len(NumberedLines) : HasTextAt(k))
    => \A j \in 1..Len(paragraph_chunk) : chunk_result[j] = EntryText(j)

\* the same, for answers which moreover start with a numbered line
C14_SameOrderWithoutIntroduction ==
    (/\ ParsedText
     /\ ExactlyNumbered
     /\ StartsNumbered
     /\ \A k \in 1..Len(NumberedLines) : HasTextAt(k))
    => \A j \in 1..Len(paragraph_chunk) : chunk_result[j] = EntryText(j)


=============================================================================
